---- MODULE Spec2Model ----
(***************************************************************************)
(* duplicate-image-finder (src/main.rs): discovery of the files under a    *)
(* root, parallel fingerprinting of every discovered entry, then exact     *)
(* grouping by content fingerprint or near-duplicate clustering by         *)
(* perceptual fingerprint.                                                 *)
(***************************************************************************)
EXTENDS Integers, Sequences, FiniteSets, TLC

VARIABLES cli, root, fs, pc, entries, task, data, groups, clusters, out

vars == <<cli, root, fs, pc, entries, task, data, groups, clusters, out>>

\* Largest number of directory entries below the root.
MaxFiles == 3

\* Largest number of regular files in the runs of ExactSpec.
MaxDupFiles == 4

\* main.rs:53  min(mmap.len(), 4096)
PrefixLimit == 4096

\* main.rs:137
ALLOWED_DISTANCE == 3

\* Option<T>
None == [some |-> FALSE]
Some(v) == [some |-> TRUE, val |-> v]

Min(a, b) == IF a <= b THEN a ELSE b

RECURSIVE SumSeq(_)
SumSeq(s) == IF s = <<>> THEN 0 ELSE Head(s) + SumSeq(Tail(s))

----------------------------------------------------------------------------
(***************************************************************************)
(* The file system the program runs against.  A file's bytes are kept      *)
(* sparsely: `patch` is the set of <<offset, byte>> pairs that differ from *)
(* zero-fill, `size` the full byte length.  `access` says whether the file *)
(* can still be opened and mapped when its task runs ("fails": deleted or  *)
(* made unreadable since discovery, or not mappable).  `pdq` is what       *)
(* decoding the bytes as an image and computing the descriptor gives: None *)
(* when either fails.  A 256-bit descriptor is the set of its bit          *)
(* positions that are 1.                                                   *)
(***************************************************************************)
D0 == {}
D1 == {0, 100, 255}
D2 == {0, 7, 100, 255}

\* What the walk yields below the root: entries it could not read and
\* regular files.  Directories below the root are yielded too and skipped by
\* collect exactly as the root itself is; the listing leaves them out.
WalkErr == [kind |-> "err"]
RegFile(size, patch, access, pdq) ==
    [kind |-> "file", size |-> size, patch |-> patch, access |-> access,
     pdq |-> pdq]

Gone == RegFile(2, {<<0, 1>>}, "fails", None)
Txt == RegFile(2, {<<0, 1>>, <<1, 2>>}, "ok", None)
BigA == RegFile(4097, {<<0, 9>>, <<4095, 3>>, <<4096, 1>>}, "ok",
                Some([bits |-> D0, quality |-> 1]))
BigB == RegFile(5000, {<<0, 9>>, <<4095, 3>>, <<4096, 2>>}, "ok",
                Some([bits |-> D1, quality |-> 2]))
Img == RegFile(4096, {<<0, 9>>, <<4095, 4>>}, "ok",
               Some([bits |-> D2, quality |-> 1]))

Catalogue == <<WalkErr, Gone, Txt, BigA, BigB, Img>>

\* Directory contents as multisets of catalogue entries: the paths 1..n are
\* only identities, and collect delivers them in any order.
Listings ==
    UNION {
        {ix \in [1..n -> 1..Len(Catalogue)] :
            \A i \in 1..n, j \in 1..n : i < j => ix[i] <= ix[j]}
        : n \in 0..MaxFiles}

\* Readable regular files, for the runs that group up to MaxDupFiles of them.
DupCatalogue == <<Txt, BigA, BigB>>

DupListings ==
    UNION {
        {ix \in [1..n -> 1..Len(DupCatalogue)] :
            \A i \in 1..n, j \in 1..n : i < j => ix[i] <= ix[j]}
        : n \in 0..MaxDupFiles}

\* &mmap[0..n] in canonical form: its length and its non-zero bytes.
Slice(f, n) == [len |-> n, nz |-> {p \in f.patch : p[1] < n /\ p[2] # 0}]

RECURSIVE WeightedSum(_)
WeightedSum(ps) ==
    IF ps = {} THEN 0
    ELSE LET p == CHOOSE q \in ps : TRUE
         IN (p[1] + 1) * p[2] + WeightedSum(ps \ {p})

\* seahash::hash: a deterministic 64-bit function of the bytes it is given and
\* of nothing else; it is not injective.
SeaHash(slice) == 7 * slice.len + WeightedSum(slice.nz)

\* hamming::distance over two [u8; 32]
HammingDistance(a, b) == Cardinality((a \ b) \cup (b \ a))

----------------------------------------------------------------------------
\* FileData::from_file
FromFile(path) ==
    [path |-> path, file_hash |-> None, size |-> None, perception_hash |-> None]

\* The file a path below the root names.
FileOf(path) == fs[path]

\* WalkDir::new(path).into_iter(): the root first, then what lies below it.
\* A root that does not exist yields one error; a root that cannot be read
\* yields the root entry and then the error of reading it.
Walk ==
    IF root = "missing" THEN <<[kind |-> "err", path |-> 0]>>
    ELSE IF root = "unreadable"
         THEN <<[kind |-> "dir", path |-> 0], [kind |-> "err", path |-> 0]>>
         ELSE <<[kind |-> "dir", path |-> 0]>>
              \o [p \in 1..Len(fs) |-> [kind |-> fs[p].kind, path |-> p]]

\* The closure of collect's filter_map.
CollectElem(elem) ==
    IF elem.kind = "err" THEN Some([ok |-> FALSE])
    ELSE IF elem.kind # "file" THEN None
         ELSE Some([ok |-> TRUE, file |-> FromFile(elem.path)])

RECURSIVE FilterMapCollect(_)
FilterMapCollect(elems) ==
    IF elems = <<>> THEN <<>>
    ELSE LET r == CollectElem(Head(elems))
         IN (IF r.some THEN <<r.val>> ELSE <<>>) \o FilterMapCollect(Tail(elems))

Perms(n) == {f \in [1..n -> 1..n] : \A i \in 1..n, j \in 1..n : i # j => f[i] # f[j]}

Init ==
    /\ cli \in [detect_similar_images : BOOLEAN, print_groups : BOOLEAN]
    /\ root \in {"ok", "missing", "unreadable"}
    /\ \E ix \in Listings :
          /\ root # "ok" => ix = <<>>
          /\ fs = [p \in 1..Len(ix) |-> Catalogue[ix[p]]]
    /\ pc = "start"
    /\ entries = <<>>
    /\ task = <<>>
    /\ data = <<>>
    /\ groups = <<>>
    /\ clusters = <<>>
    /\ out = <<>>

\* main, lines 73-75: collect(&cli.root) and the file count.  par_bridge
\* hands the walk's elements to the pool, so the Vec's order is any order.
Collect ==
    /\ pc = "start"
    /\ LET found == FilterMapCollect(Walk)
       IN \E perm \in Perms(Len(found)) :
             /\ entries' = [i \in 1..Len(found) |-> found[perm[i]]]
             /\ task' = [i \in 1..Len(found) |->
                            [st |-> "pending", file |-> None, calls |-> 0]]
             /\ out' = out \o <<[line |-> "Found files", n |-> Len(found)]>>
    /\ pc' = "hashing"
    /\ UNCHANGED <<cli, root, fs, data, groups, clusters>>

----------------------------------------------------------------------------
(***************************************************************************)
(* FileData::hash, lines 44-65, as the steps one task takes.               *)
(***************************************************************************)
\* File::open(&self.path) and Mmap::map(&file) both succeed, lines 45-51
CanMap(f) == f.access = "ok"

\* the whole mapping hashed
PrefixLen_Whole(len) == len

\* line 53
PrefixLen(len) == Min(len, PrefixLimit)

\* lines 53-55: file_hash from the prefix, size from the whole mapping
HashContent(rec, f) ==
    [rec EXCEPT !.file_hash = Some(SeaHash(Slice(f, PrefixLen(f.size)))),
                !.size = Some(f.size)]

\* lines 58-61: load_from_memory(&mmap).ok()? and then generate_pdq(&img)
PdqClosure(f) == f.pdq

\* the perceptual hash computed whatever the flag says
HashPerception_Always(rec, f, try_perception_hash) ==
    [rec EXCEPT !.perception_hash = PdqClosure(f)]

\* lines 57-62
HashPerception(rec, f, try_perception_hash) ==
    IF try_perception_hash
    THEN [rec EXCEPT !.perception_hash = PdqClosure(f)]
    ELSE rec

\* a match that keeps the unhashed record of a failed task
MatchResult_KeepFailed(result) ==
    IF result.ok THEN Some(result.file) ELSE Some(FromFile(result.path))

\* lines 89-95: the match of the filter_map closure on the task's result
MatchResult(result) == IF result.ok THEN Some(result.file) ELSE None

\* lines 91-94: a task that ends in Err(err)
Failed(i, err, path) ==
    /\ task' = [task EXCEPT ![i] =
                  [st |-> "done",
                   file |-> MatchResult([ok |-> FALSE, err |-> err, path |-> path]),
                   calls |-> task[i].calls + 1]]
    /\ out' = out \o <<[line |-> "Failed to hash file", err |-> err, n |-> path]>>
    /\ UNCHANGED <<cli, root, fs, pc, entries, data, groups, clusters>>

\* line 84: `file?` on an entry that collect delivered as an error
TaskEntryErr(i) ==
    /\ pc = "hashing"
    /\ task[i].st = "pending"
    /\ ~entries[i].ok
    /\ Failed(i, "Invalid directory entry while iterating!", 0)

\* lines 45-46: File::open fails on a file that cannot be read
TaskOpenFails(i) ==
    /\ pc = "hashing"
    /\ task[i].st = "pending"
    /\ entries[i].ok
    /\ ~CanMap(FileOf(entries[i].file.path))
    /\ Failed(i, "Trying to open", entries[i].file.path)

\* lines 48-51: the file opens and Mmap::map fails
TaskMapFails(i) ==
    /\ pc = "hashing"
    /\ task[i].st = "pending"
    /\ entries[i].ok
    /\ ~CanMap(FileOf(entries[i].file.path))
    /\ Failed(i, "Failed to memory map", entries[i].file.path)

\* lines 84-85, 45-55: the file is opened, mapped and its content hashed
TaskHashContent(i) ==
    /\ pc = "hashing"
    /\ task[i].st = "pending"
    /\ entries[i].ok
    /\ CanMap(FileOf(entries[i].file.path))
    /\ task' = [task EXCEPT ![i] =
                  [st |-> "running",
                   file |-> Some(HashContent(entries[i].file,
                                             FileOf(entries[i].file.path))),
                   calls |-> task[i].calls + 1]]
    /\ UNCHANGED <<cli, root, fs, pc, entries, data, groups, clusters, out>>

\* lines 57-64, 86, 90: the perceptual hash, Ok(file), Some(file)
TaskFinish(i) ==
    /\ pc = "hashing"
    /\ task[i].st = "running"
    /\ task' = [task EXCEPT ![i] =
                  [st |-> "done",
                   file |-> MatchResult(
                              [ok |-> TRUE,
                               file |-> HashPerception(task[i].file.val,
                                                       FileOf(task[i].file.val.path),
                                                       cli.detect_similar_images)]),
                   calls |-> task[i].calls]]
    /\ UNCHANGED <<cli, root, fs, pc, entries, data, groups, clusters, out>>

\* a collect that does not wait for the tasks
AllTasksDone_NoBarrier == TRUE

\* .collect() of the parallel iterator returns once every item was consumed.
AllTasksDone == \A i \in 1..Len(task) : task[i].st = "done"

\* The Vec the parallel filter_map collects into: the Some results, in the
\* order of the source Vec.
RECURSIVE Collected(_)
Collected(ts) ==
    IF ts = <<>> THEN <<>>
    ELSE (IF Head(ts).file.some THEN <<Head(ts).file.val>> ELSE <<>>)
         \o Collected(Tail(ts))

\* main, lines 97-102: the collected Vec, its length and total size
CollectResults ==
    /\ pc = "hashing"
    /\ AllTasksDone
    /\ LET d == Collected(task)
       IN /\ data' = d
          /\ IF \E i \in 1..Len(d) : ~d[i].size.some
             THEN /\ pc' = "panic_unwrap"
                  /\ out' = out
             ELSE /\ pc' = "hashed"
                  /\ out' = out \o
                       <<[line |-> "Hashed files", n |-> Len(d),
                          total |-> SumSeq([i \in 1..Len(d) |-> d[i].size.val])]>>
    /\ UNCHANGED <<cli, root, fs, entries, task, groups, clusters>>

----------------------------------------------------------------------------
(***************************************************************************)
(* Grouping.  A &FileData is the index of the record in `data`.            *)
(***************************************************************************)
\* a map that keeps its keys in insertion order
EntryPush_Unsorted(map, key, item) ==
    IF \E k \in 1..Len(map) : map[k].hash = key
    THEN [k \in 1..Len(map) |->
            IF map[k].hash = key
            THEN [map[k] EXCEPT !.files = Append(map[k].files, item)]
            ELSE map[k]]
    ELSE Append(map, [hash |-> key, files |-> <<item>>])

\* map.entry(key).or_default().push(item) on a BTreeMap<u64, Vec<&FileData>>,
\* kept as the sequence of its entries in key order (line 179)
EntryPush(map, key, item) ==
    IF \E k \in 1..Len(map) : map[k].hash = key
    THEN [k \in 1..Len(map) |->
            IF map[k].hash = key
            THEN [map[k] EXCEPT !.files = Append(map[k].files, item)]
            ELSE map[k]]
    ELSE LET pos == Cardinality({k \in 1..Len(map) : map[k].hash < key})
         IN SubSeq(map, 1, pos)
            \o <<[hash |-> key, files |-> <<item>>]>>
            \o SubSeq(map, pos + 1, Len(map))

\* the loop of group_candates, lines 178-180, from item i on
RECURSIVE GroupFrom(_, _, _)
GroupFrom(items, i, map) ==
    IF i > Len(items) THEN map
    ELSE GroupFrom(items, i + 1, EntryPush(map, items[i].file_hash.val, i))

\* group_candates, lines 175-183
group_candates(items) == GroupFrom(items, 1, <<>>)

\* retain that keeps every non-empty group
Retained_NonEmpty(v) == Len(v) > 0

\* the predicate of groups.retain, line 118
Retained(v) == Len(v) > 1

\* groups.retain(|_, v| v.len() > 1), line 118
Retain(map) == SelectSeq(map, LAMBDA g : Retained(g.files))

\* the print loop of build_exact_groups, lines 126-132
RECURSIVE PrintGroups(_, _)
PrintGroups(map, items) ==
    IF map = <<>> THEN <<>>
    ELSE <<[line |-> "=== hash ===", n |-> Head(map).hash]>>
         \o [k \in 1..Len(Head(map).files) |->
                [line |-> "path", n |-> items[Head(map).files[k]].path]]
         \o <<[line |-> "", n |-> 0]>>
         \o PrintGroups(Tail(map), items)

\* build_exact_groups, lines 115-134
BuildExactGroups ==
    /\ pc = "hashed"
    /\ ~cli.detect_similar_images
    /\ IF \E i \in 1..Len(data) : ~data[i].file_hash.some
       THEN /\ pc' = "panic_unwrap"
            /\ UNCHANGED <<groups, out>>
       ELSE LET retained == Retain(group_candates(data))
                got == <<[line |-> "Got possible duplicates", n |-> Len(retained)]>>
            IN /\ groups' = retained
               /\ IF Len(retained) = 0
                  THEN \* line 122: integer division by groups.len() = 0
                       /\ pc' = "panic_div0"
                       /\ out' = out \o got
                  ELSE /\ pc' = "done"
                       /\ out' = out \o got
                            \o <<[line |-> "On average elements per group",
                                  n |-> SumSeq([k \in 1..Len(retained) |->
                                                  Len(retained[k].files)])
                                        \div Len(retained)]>>
                            \o (IF cli.print_groups
                                THEN PrintGroups(retained, data) ELSE <<>>)
    /\ UNCHANGED <<cli, root, fs, entries, task, data, clusters>>

\* self-exclusion by descriptor value instead of by identity
SameRecord_ByValue(items, image, other) ==
    items[image].perception_hash = items[other].perception_hash

\* addr_eq(image, other), line 149
SameRecord(items, image, other) == image = other

\* a filter that reports each similar pair once, from its first record
IsSimilar_Dedup(items, image, other) ==
    /\ image < other
    /\ HammingDistance(items[image].perception_hash.val.bits,
                       items[other].perception_hash.val.bits)
          <= ALLOWED_DISTANCE

\* the filter closure, lines 148-156
IsSimilar(items, image, other) ==
    IF SameRecord(items, image, other) THEN FALSE
    ELSE HammingDistance(items[image].perception_hash.val.bits,
                         items[other].perception_hash.val.bits)
         <= ALLOWED_DISTANCE

\* images.iter().filter(..).collect(), lines 148-156
Similars(items, images, image) ==
    SelectSeq(images, LAMBDA other : IsSimilar(items, image, other))

\* line 139: the records that carry a perceptual hash
RECURSIVE ImagesFrom(_, _)
ImagesFrom(items, i) ==
    IF i > Len(items) THEN <<>>
    ELSE (IF items[i].perception_hash.some THEN <<i>> ELSE <<>>)
         \o ImagesFrom(items, i + 1)

\* the loop of lines 145-161, from the k-th image on
RECURSIVE ClustersFrom(_, _, _)
ClustersFrom(items, images, k) ==
    IF k > Len(images) THEN <<>>
    ELSE LET similars == Similars(items, images, images[k])
         IN (IF similars # <<>>
             THEN <<[image |-> images[k], similars |-> similars]>>
             ELSE <<>>)
            \o ClustersFrom(items, images, k + 1)

\* the print loop of build_perception_groups, lines 163-172
RECURSIVE PrintClusters(_, _, _)
PrintClusters(cs, items, print_groups) ==
    IF cs = <<>> THEN <<>>
    ELSE <<[line |-> "Found images similar to", n |-> Len(Head(cs).similars),
            path |-> items[Head(cs).image].path]>>
         \o (IF print_groups
             THEN [k \in 1..Len(Head(cs).similars) |->
                     [line |-> "path", n |-> items[Head(cs).similars[k]].path]]
                  \o <<[line |-> "", n |-> 0]>>
             ELSE <<>>)
         \o PrintClusters(Tail(cs), items, print_groups)

\* build_perception_groups, lines 136-173
BuildPerceptionGroups ==
    /\ pc = "hashed"
    /\ cli.detect_similar_images
    /\ LET images == ImagesFrom(data, 1)
           found == ClustersFrom(data, images, 1)
       IN /\ clusters' = found
          /\ out' = out
                \o <<[line |-> "Found images in dataset", n |-> Len(images)]>>
                \o PrintClusters(found, data, cli.print_groups)
    /\ pc' = "done"
    /\ UNCHANGED <<cli, root, fs, entries, task, data, groups>>

Next ==
    \/ Collect
    \/ \E i \in 1..Len(task) : TaskEntryErr(i)
    \/ \E i \in 1..Len(task) : TaskOpenFails(i)
    \/ \E i \in 1..Len(task) : TaskMapFails(i)
    \/ \E i \in 1..Len(task) : TaskHashContent(i)
    \/ \E i \in 1..Len(task) : TaskFinish(i)
    \/ CollectResults
    \/ BuildExactGroups
    \/ BuildPerceptionGroups

Spec == Init /\ [][Next]_vars

\* The runs of Spec in exact mode over a readable root that holds up to
\* MaxDupFiles readable regular files: the other actions of Next are
\* disabled there.
InitExact ==
    /\ cli \in [detect_similar_images : {FALSE}, print_groups : BOOLEAN]
    /\ root = "ok"
    /\ \E ix \in DupListings : fs = [p \in 1..Len(ix) |-> DupCatalogue[ix[p]]]
    /\ pc = "start"
    /\ entries = <<>>
    /\ task = <<>>
    /\ data = <<>>
    /\ groups = <<>>
    /\ clusters = <<>>
    /\ out = <<>>

NextExact ==
    \/ Collect
    \/ \E i \in 1..Len(task) : TaskHashContent(i)
    \/ \E i \in 1..Len(task) : TaskFinish(i)
    \/ CollectResults
    \/ BuildExactGroups

ExactSpec == InitExact /\ [][NextExact]_vars

----------------------------------------------------------------------------
(***************************************************************************)
(* Properties.                                                             *)
(***************************************************************************)
Range(s) == {s[i] : i \in 1..Len(s)}

ExactRan == ~cli.detect_similar_images /\ pc \in {"done", "panic_div0"}
SimilarRan == cli.detect_similar_images /\ pc = "done"
PastBarrier == pc \in {"hashed", "done", "panic_div0", "panic_unwrap"}

\* the paths below the root that name a regular file which opens and maps
Readable == {p \in 1..Len(fs) : fs[p].kind = "file" /\ fs[p].access = "ok"}
Unreadable == {p \in 1..Len(fs) : fs[p].kind = "file" /\ fs[p].access # "ok"}

\* the positions <<group, member>> of the exact groups
Members == {km \in (1..Len(groups)) \X (1..Len(data)) :
               km[2] <= Len(groups[km[1]].files)}

\* C1: after retain, no exact group has fewer than 2 members, every member
\* of a group has the group's key as file_hash, no record is in two groups
\* or twice in one, and every record whose file_hash another record shares
\* is in the group of that hash.
C1_ExactGroupsPartition ==
    ExactRan =>
      /\ \A k \in 1..Len(groups) : Len(groups[k].files) >= 2
      /\ \A km \in Members :
            /\ groups[km[1]].files[km[2]] \in 1..Len(data)
            /\ data[groups[km[1]].files[km[2]]].file_hash
                 = Some(groups[km[1]].hash)
      /\ \A a \in Members, b \in Members :
            a # b => groups[a[1]].files[a[2]] # groups[b[1]].files[b[2]]
      /\ \A i \in 1..Len(data), j \in 1..Len(data) :
            (i # j /\ data[i].file_hash = data[j].file_hash) =>
               \E k \in 1..Len(groups) :
                  /\ Some(groups[k].hash) = data[i].file_hash
                  /\ i \in Range(groups[k].files)

\* two groups of two records each were retained
C1_Witness ==
    /\ ExactRan
    /\ Len(groups) = 2
    /\ Len(data) = 4

\* C2: in exact mode, when no two fingerprinted records share a content
\* fingerprint, zero groups are reported and main ends with Ok.
C2_NoDuplicatesEndsOk ==
    ( /\ ~cli.detect_similar_images
      /\ pc \in {"done", "panic_div0", "panic_unwrap"}
      /\ \A i \in 1..Len(data), j \in 1..Len(data) :
            i # j => data[i].file_hash # data[j].file_hash )
    => (pc = "done" /\ groups = <<>>)

\* the records that carry a perceptual hash
WithPdq == {r \in 1..Len(data) : data[r].perception_hash.some}

\* the other records within ALLOWED_DISTANCE bits of r
Near(r) ==
    {o \in WithPdq :
        /\ o # r
        /\ HammingDistance(data[r].perception_hash.val.bits,
                           data[o].perception_hash.val.bits) <= ALLOWED_DISTANCE}

ClustersOf(r) == {c \in 1..Len(clusters) : clusters[c].image = r}

\* C3: the similar-set of a record R with a perceptual hash is exactly the
\* set of the other records (by identity) within distance 3, and a cluster
\* is emitted for R iff that set is non-empty.
C3_SimilarSetExact ==
    SimilarRan =>
      /\ \A c \in 1..Len(clusters) : clusters[c].image \in WithPdq
      /\ \A r \in WithPdq :
            /\ Cardinality(ClustersOf(r)) = (IF Near(r) = {} THEN 0 ELSE 1)
            /\ \A c \in ClustersOf(r) :
                  /\ Range(clusters[c].similars) = Near(r)
                  /\ Len(clusters[c].similars) = Cardinality(Near(r))
                  /\ r \notin Range(clusters[c].similars)

\* two records with the same descriptor are in each other's similar-set, and
\* a third record with a descriptor has no cluster
C3_Witness ==
    /\ SimilarRan
    /\ \E a \in WithPdq, b \in WithPdq, c \in WithPdq :
          /\ a # b
          /\ data[a].perception_hash = data[b].perception_hash
          /\ \E x \in ClustersOf(a) : b \in Range(clusters[x].similars)
          /\ \E y \in ClustersOf(b) : a \in Range(clusters[y].similars)
          /\ ClustersOf(c) = {}

\* a is listed in a similar-set emitted for b
ListedFor(a, b) == \E c \in ClustersOf(b) : a \in Range(clusters[c].similars)

\* C4: A is in the similar-set emitted for B iff B is in the one emitted for
\* A, both clusters are emitted, and the number of clusters is the number of
\* records that have another record within distance 3.
C4_SymmetricClusters ==
    SimilarRan =>
      /\ \A a \in WithPdq, b \in WithPdq :
            /\ ListedFor(a, b) <=> ListedFor(b, a)
            /\ ListedFor(a, b) => (ClustersOf(a) # {} /\ ClustersOf(b) # {})
      /\ Len(clusters) = Cardinality({r \in WithPdq : Near(r) # {}})

\* three clusters, one of them with two similar records
C4_Witness ==
    /\ SimilarRan
    /\ Len(clusters) = 3
    /\ \E c \in 1..Len(clusters) : Len(clusters[c].similars) = 2
    /\ \E c \in 1..Len(clusters) : Len(clusters[c].similars) = 1

\* byte i of file f
ByteAt(f, i) ==
    IF \E p \in f.patch : p[1] = i
    THEN (CHOOSE p \in f.patch : p[1] = i)[2]
    ELSE 0

\* f and g have prefixes of the same length with the same bytes
SamePrefix(f, g) ==
    /\ Min(f.size, PrefixLimit) = Min(g.size, PrefixLimit)
    /\ \A i \in {p[1] : p \in f.patch \cup g.patch} :
          i < Min(f.size, PrefixLimit) => ByteAt(f, i) = ByteAt(g, i)

\* the tasks that hold a hashed record
Hashed == {i \in 1..Len(task) : task[i].file.some}

\* the record task i holds and the file it was hashed from
Rec(i) == task[i].file.val
Src(i) == FileOf(task[i].file.val.path)

\* C5: file_hash depends on the first min(size, 4096) bytes only: files with
\* the same prefix get the same file_hash, a file shorter than 4096 bytes is
\* hashed in full, and size is the full byte length.
C5_PrefixDeterminesHash ==
    \A i \in Hashed :
       /\ Rec(i).size = Some(Src(i).size)
       /\ Rec(i).file_hash.some
       /\ Src(i).size < PrefixLimit =>
             Rec(i).file_hash = Some(SeaHash(Slice(Src(i), Src(i).size)))
       /\ \A j \in Hashed :
             (i < j /\ SamePrefix(Src(i), Src(j))) =>
                Rec(i).file_hash = Rec(j).file_hash

\* two files that differ in size and from offset 4096 on got one file_hash
C5_Witness ==
    \E i \in Hashed, j \in Hashed :
       /\ Rec(i).size # Rec(j).size
       /\ Rec(i).size.val > PrefixLimit
       /\ Rec(j).size.val > PrefixLimit
       /\ ByteAt(Src(i), PrefixLimit) # ByteAt(Src(j), PrefixLimit)
       /\ Rec(i).file_hash = Rec(j).file_hash

C7_InvalidRootAborts ==
    root # "ok" =>
      /\ \A k \in 1..Len(out) : out[k].line # "Found files"
      /\ \A i \in 1..Len(task) : task[i].st = "pending"
      /\ pc \notin {"done", "panic_div0"}

\* C8: grouping starts only once every discovered entry has been handled by
\* one finished task, no entry is fingerprinted twice, and the grouping step
\* sees all the successful records.
C8_GroupingAfterBarrier ==
    /\ \A i \in 1..Len(task) : task[i].calls <= 1
    /\ PastBarrier =>
          /\ Len(task) = Len(entries)
          /\ \A i \in 1..Len(task) : task[i].st = "done" /\ task[i].calls = 1
          /\ {data[i].path : i \in 1..Len(data)} = Readable
          /\ Len(data) = Cardinality(Readable)

\* grouping ran after three tasks, of which one failed
C8_Witness ==
    /\ pc \in {"done", "panic_div0"}
    /\ Len(task) = 3
    /\ Len(data) = 2

\* a record with a perceptual hash has file_hash and size, and has none at
\* all without --detect-similar-images
PdqGuarded(r) ==
    /\ r.perception_hash.some => (r.file_hash.some /\ r.size.some)
    /\ ~cli.detect_similar_images => ~r.perception_hash.some

\* C9: a perceptual failure drops no record and a perceptual hash never
\* exists without file_hash and size; without --detect-similar-images no
\* record has a perceptual hash.
C9_PerceptionOptional ==
    /\ \A i \in 1..Len(entries) : entries[i].ok => PdqGuarded(entries[i].file)
    /\ \A i \in Hashed : PdqGuarded(Rec(i))
    /\ \A i \in 1..Len(data) : PdqGuarded(data[i])
    /\ \A i \in 1..Len(task) :
          ( /\ task[i].st = "done"
            /\ entries[i].ok
            /\ entries[i].file.path \in Readable ) =>
              /\ task[i].file.some
              /\ task[i].file.val.file_hash.some
              /\ task[i].file.val.size.some
              /\ (cli.detect_similar_images
                  /\ PdqClosure(FileOf(entries[i].file.path)) = None)
                   => task[i].file.val.perception_hash = None

\* similar-image mode collected a record without a descriptor, because its
\* bytes gave none, next to one with a descriptor
C9_Witness ==
    /\ SimilarRan
    /\ \E i \in 1..Len(data) :
          /\ PdqClosure(FileOf(data[i].path)) = None
          /\ data[i].perception_hash = None
          /\ data[i].file_hash.some
    /\ \E i \in 1..Len(data) : data[i].perception_hash.some

\* the exact groups of the files, whatever the order they were hashed in
ExpectedGroups ==
    LET h(p) == HashContent(FromFile(p), fs[p]).file_hash.val
        shared == {p \in Readable : \E q \in Readable : q # p /\ h(q) = h(p)}
    IN {<<h(p), {q \in shared : h(q) = h(p)}>> : p \in shared}

\* the "=== hash ===" lines printed, in order
PrintedKeys ==
    LET heads == SelectSeq(out, LAMBDA l : l.line = "=== hash ===")
    IN [k \in 1..Len(heads) |-> heads[k].n]

\* C10: for a given set of files every interleaving yields the same exact
\* group keys with the same member sets, and the groups are iterated and
\* printed in ascending order of fingerprint value.
C10_ExactGroupsDeterministic ==
    ExactRan =>
      /\ {<<groups[k].hash, {data[m].path : m \in Range(groups[k].files)}>> :
             k \in 1..Len(groups)} = ExpectedGroups
      /\ Len(groups) = Cardinality(ExpectedGroups)
      /\ \A k \in 1..Len(groups), l \in 1..Len(groups) :
            k < l => groups[k].hash < groups[l].hash
      /\ (pc = "done" /\ cli.print_groups) =>
            PrintedKeys = [k \in 1..Len(groups) |-> groups[k].hash]

\* two groups were printed, and the file with the larger fingerprint was
\* collected first
C10_Witness ==
    /\ ExactRan
    /\ cli.print_groups
    /\ Len(groups) = 2
    /\ Len(PrintedKeys) = 2
    /\ data[1].file_hash.val = groups[2].hash
====
